---- MODULE Spec2Model ----
(***************************************************************************)
(* Model of makemira.py: the loaders that fill the patient store src_data  *)
(* and the aggregation phases that turn it into the wide table mira_data.  *)
(*                                                                         *)
(* A csv row is a tuple of strings; the code indexes rows from 0, so       *)
(* At(r, i) is r[i].      Python's None is the empty tuple for the list-   *)
(* valued fields (demo, case, pico) and the string "None" for the string-  *)
(* valued ones (outcome, sex).  An OrderedDict is a function together with *)
(* the sequence of its keys in insertion order.                            *)
(***************************************************************************)
EXTENDS Integers, Sequences, FiniteSets, TLC

(***************************************************************************)
(* Bounds of the model.                                                    *)
(***************************************************************************)
\* Total number of rows read from the four input tables in one run.
MaxRows == 3
\* The same in the runs of SpecPanels, which read longer series of fewer kinds
\* of rows.
MaxPanelRows == 6
\* Largest number of rows of a dictionary file given to load_dict on its own.
MaxDictRows == 2
\* Largest number of fields of such a row.
MaxDictFields == 8
\* Largest number of characters of a cluster code given to load_cluster_data.
MaxCodeLen == 4
\* Largest number of characters of an identifier given to normalize_id.
MaxIdLen == 4
\* Number of master rows read in the runs of SpecSchema.
MaxSchemaRows == 2

(***************************************************************************)
(* Inputs the loaders may read.                                            *)
(***************************************************************************)
\* Patient identifiers occurring in the input tables.
Ids == {"G-1", "G-2"}
\* Possible contents of the idignore file.
IgnoreLists == {<<>>, <<"G-2">>}
\* Cells of the disease-group column of the master table.
Groups == {"", "Epos", "Eneg"}
\* Cells of the viral-load column of the master table (numeric or empty).
VLoads == {"", "0", "9"}
\* The cells of the master rows in the runs of SpecPanels.
PanelVLoads == {"", "9"}
PanelGroups == {"Epos"}
\* Cells of the sex and outcome columns of the demographics table.
Sexes == {"Male", "Unk"}
Outcomes == {"Died"}
\* Cells of the coded column of the case-notification table.
CaseCells == {"Yes", "Maybe"}
\* Cells of the analyte column of the metabolic-panel table.
PicoCells == {"5"}
\* Possible sets of identifiers (already normalized) that carry sequencing
\* data: one patient of the tables and one identifier the master table lacks.
SeqIdSets == {{"G-1", "G-9"}}

At(r, i) == r[i + 1]

Range(s) == {s[i] : i \in 1..Len(s)}

\* Sample indices and dates are opaque to the program: the k-th row that a
\* table holds for a patient carries the index k and a date made from k.
NumStr(n) == ToString(n)

\* A row of MasterDataListandEBOVResults.csv: id at 1, idx at 3, date at 5,
\* viral load at 8, result at 9, group at 10.
MasterRow(id, n, vload, group) ==
    <<"", id, "", NumStr(n), "", "D" \o NumStr(n), "", "", vload, "", group>>

\* A row of DemographicsFromSim_schieffelin.csv: id at 1, sex at 3, outcome at 7.
DemoRow(id, sex, outcome) == <<"", id, "", sex, "", "", "", outcome>>

\* A row of CaseNotification_schieffelin.csv: id at 0, a coded symptom at 1.
CaseRow(id, cell) == <<id, cell>>

\* A row of FinalPiccoloData_schieffelin-FinalSummary1.csv: id at 3, date at 6,
\* one analyte at 7.
PicoRow(id, n, cell) == <<"", "", "", id, "", "", "P" \o NumStr(n), cell>>

VARIABLES
    pc,                 \* position in the main script
    aggregate_seq_data, \* -seq flag
    convert_qpcr_log,   \* -log flag
    ignore_id,          \* list of ignored identifiers
    src_data,           \* patient store: id -> record
    src_keys,           \* insertion order of src_data
    mira_data,          \* output rows: id -> row
    variables,          \* declared variable names, in order
    var_titles, var_types, var_ranges,
    var_groups,         \* group hierarchy: <<gname, <<tname, names>> ...>>
    seq_ids,            \* identifiers with sequencing data (snp_data, af_data, cl_data)
    row,                \* loop variable of the loaders: the row read last, <<>> outside
    n_rows,             \* number of table rows read so far
    master_seen,        \* history: <<id, group>> of every master row read
    demo_sets,          \* history: id -> number of assignments of the demo field
    case_sets,          \* history: id -> number of assignments of the case field
    demo_dict,          \* load_dict("demo-dict.csv")
    case_dict,          \* load_dict("case-dict.csv")
    dict_file,          \* rows of mirador/dictionary.csv, <<>> before save_dict
    arg,                \* argument of a function called on its own, <<>> in a run
    res                 \* its result

vars == <<pc, aggregate_seq_data, convert_qpcr_log, ignore_id, src_data, src_keys,
          mira_data, variables, var_titles, var_types, var_ranges, var_groups,
          seq_ids, row, n_rows, master_seen, demo_sets, case_sets,
          demo_dict, case_dict, dict_file, arg, res>>

aggVars == <<mira_data, variables, var_titles, var_types, var_ranges, var_groups>>
flagVars == <<aggregate_seq_data, convert_qpcr_log>>
histVars == <<master_seen, demo_sets, case_sets>>
dictVars == <<demo_dict, case_dict>>
unitVars == <<arg, res>>

Keys(d) == DOMAIN d

\* d[k] = v, adding k when it is new (dict item assignment).
Put(d, k, v) == [x \in (DOMAIN d) \cup {k} |-> IF x = k THEN v ELSE d[x]]

EmptyDict == [x \in {} |-> ""]

\* 1 + the number of rows of a series already stored for a patient.
Ordinal(store, id, field) ==
    IF id \in Keys(store) THEN Len(store[id][field]) + 1 ELSE 1

(***************************************************************************)
(* Variable dictionaries.  A csv field holding a range string such as      *)
(* "1:Male;2:Female" is represented by its pieces: the tuple of its        *)
(* ";"-separated entries, each the tuple of its ":"-separated parts.  The  *)
(* empty string is << <<"">> >>.                                           *)
(***************************************************************************)
\* demo-dict.csv and case-dict.csv: position,name,alias,group,table,type[,codeSpec]
DemoDictRows ==
    << <<"3", "SEX", "Sex", "Demographics", "Basic Information", "category",
         << <<"1", "Male">>, <<"2", "Female">> >> >>,
       <<"7", "OUT", "Outcome", "Demographics", "Basic Information", "String">> >>

CaseDictRows ==
    << <<"1", "FEVER", "Fever", "Clinical", "Symptoms", "category",
         << <<"1", "Yes">>, <<"0", "No">> >> >> >>

\* The strings int() accepts, among the cells used as column positions.
IsInt(s) == \E n \in 0..99 : ToString(n) = s

\* int(row[0]) for the column positions used in the dictionaries.
IntOf(s) == CHOOSE n \in 0..99 : ToString(n) = s

\* The loop of load_dict over the pieces of a range string: idict[key] = value.
RECURSIVE IDictOf(_, _)
IDictOf(parts, idict) ==
    IF parts = <<>> THEN idict
    ELSE LET p == Head(parts)
         IN  IF p = <<"">> THEN IDictOf(Tail(parts), idict)
             ELSE IDictOf(Tail(parts), Put(idict, p[2], p[1]))

DictInfo(r) ==
    [name |-> At(r, 1), alias |-> At(r, 2), group |-> At(r, 3),
     table |-> At(r, 4), type |-> At(r, 5),
     has_ranges |-> Len(r) = 7,
     ranges |-> IF Len(r) = 7 THEN At(r, 6) ELSE <<>>,
     idict |-> IF Len(r) = 7 THEN IDictOf(At(r, 6), Put(EmptyDict, "", ""))
               ELSE EmptyDict]

\* The statements of the loop body that raise on the row r: row[0] .. row[5]
\* on a short row (IndexError), int(row[0]) (ValueError), and the unpacking
\* [value, key] = p.split(":") of a non-empty piece (ValueError).
DictRowRaises(r) ==
    \/ Len(r) < 6
    \/ ~IsInt(At(r, 0))
    \/ /\ Len(r) = 7
       /\ \E i \in 1..Len(At(r, 6)) :
              At(r, 6)[i] # <<"">> /\ Len(At(r, 6)[i]) # 2

\* dict[col] = info on an OrderedDict: a new key goes last, an old one keeps
\* its place.
DictPut(dict, col, info) ==
    IF \E i \in 1..Len(dict) : dict[i].col = col
    THEN [i \in 1..Len(dict) |->
             IF dict[i].col = col THEN [col |-> col, info |-> info] ELSE dict[i]]
    ELSE Append(dict, [col |-> col, info |-> info])

RECURSIVE LoadDictRows(_, _)
LoadDictRows(dict, rows) ==
    IF rows = <<>> THEN dict
    ELSE LET r == Head(rows)
         IN  LoadDictRows(DictPut(dict, IntOf(At(r, 0)), DictInfo(r)), Tail(rows))

\* load_dict raises on the first row whose loop body does.
load_dict_raises(rows) == \E i \in 1..Len(rows) : DictRowRaises(rows[i])

\* load_dict: the ordered mapping col -> info, as the sequence of its entries,
\* when no row raises.
load_dict(rows) == LoadDictRows(<<>>, rows)

(***************************************************************************)
(* Main script, lines 653-668: flags and empty accumulators.               *)
(***************************************************************************)
Init ==
    /\ pc = "load_ignore"
    /\ aggregate_seq_data \in BOOLEAN
    /\ convert_qpcr_log \in BOOLEAN
    /\ ignore_id = <<>>
    /\ src_data = EmptyDict
    /\ src_keys = <<>>
    /\ mira_data = EmptyDict
    /\ variables = <<>>
    /\ var_titles = EmptyDict
    /\ var_types = EmptyDict
    /\ var_ranges = EmptyDict
    /\ var_groups = <<>>
    /\ seq_ids = {}
    /\ row = <<>>
    /\ n_rows = 0
    /\ master_seen = {}
    /\ demo_sets = [id \in Ids |-> 0]
    /\ case_sets = [id \in Ids |-> 0]
    /\ demo_dict = load_dict(DemoDictRows)
    /\ case_dict = load_dict(CaseDictRows)
    /\ dict_file = <<>>
    /\ arg = <<>>
    /\ res = <<>>

\* The tables are read in this order (lines 671-682).  pc names the table whose
\* rows are being read; a step of a later loader means that the earlier tables
\* have no more rows.
LoaderPcs == {"load_master", "load_demo", "load_case", "load_pico"}

(***************************************************************************)
(* load_ignore                                                             *)
(***************************************************************************)
load_ignore ==
    /\ pc = "load_ignore"
    /\ \E list \in IgnoreLists : ignore_id' = list
    /\ pc' = "load_master"
    /\ UNCHANGED <<src_data, src_keys, seq_ids, row, n_rows>>
    /\ UNCHANGED <<aggVars, flagVars, dictVars, unitVars, dict_file, histVars>>

(***************************************************************************)
(* load_master: one iteration of the loop over the rows of the table.      *)
(***************************************************************************)
NewRecord(group) ==
    [group |-> group, outcome |-> "None", sex |-> "None",
     demo |-> <<>>, case |-> <<>>, pico |-> <<>>, qpcr |-> <<>>]

\* load_master without the test of the ignore list.
MasterStoreNoIgnore(store, r) ==
    LET id    == At(r, 1)
        group == At(r, 10)
        data  == IF id \in Keys(store) THEN store[id] ELSE NewRecord(group)
    IN  IF group = "" THEN store
        ELSE Put(store, id,
                 [data EXCEPT !.qpcr = Append(@, <<At(r, 3), At(r, 5), At(r, 8)>>)])

\* load_master without the test of the group cell.
MasterStoreNoGroupTest(store, r) ==
    LET id    == At(r, 1)
        group == At(r, 10)
        data  == IF id \in Keys(store) THEN store[id] ELSE NewRecord(group)
    IN  IF id \in Range(ignore_id) THEN store
        ELSE Put(store, id,
                 [data EXCEPT !.qpcr = Append(@, <<At(r, 3), At(r, 5), At(r, 8)>>)])

\* load_master assigning the group on every accepted row.
MasterStoreRegroup(store, r) ==
    LET id    == At(r, 1)
        group == At(r, 10)
        data  == IF id \in Keys(store) THEN store[id] ELSE NewRecord(group)
    IN  IF id \in Range(ignore_id) THEN store
        ELSE IF group = "" THEN store
        ELSE Put(store, id,
                 [data EXCEPT !.group = group,
                              !.qpcr = Append(@, <<At(r, 3), At(r, 5), At(r, 8)>>)])

\* The store after the loop body has run on the row r.
MasterStore(store, r) ==
    LET id    == At(r, 1)
        idx   == At(r, 3)
        date  == At(r, 5)
        vload == At(r, 8)
        group == At(r, 10)
        data  == IF id \in Keys(store) THEN store[id] ELSE NewRecord(group)
    IN  IF id \in Range(ignore_id) THEN store
        ELSE IF group = "" THEN store
        ELSE Put(store, id, [data EXCEPT !.qpcr = Append(@, <<idx, date, vload>>)])

MasterKeys(keys, store, r) ==
    LET id == At(r, 1)
    IN  IF id \in Keys(MasterStore(store, r)) /\ id \notin Keys(store)
        THEN Append(keys, id) ELSE keys

\* One row of the master table, its cells drawn from the given sets, in a run
\* that reads at most max rows.
MasterStep(vloads, groups, max) ==
    /\ pc = "load_master"
    /\ n_rows < max
    /\ \E id \in Ids, vload \in vloads, group \in groups :
          LET r == MasterRow(id, Ordinal(src_data, id, "qpcr"), vload, group)
          IN  /\ row' = r
              /\ src_data' = MasterStore(src_data, r)
              /\ src_keys' = MasterKeys(src_keys, src_data, r)
              /\ master_seen' = master_seen \cup {<<At(r, 1), At(r, 10)>>}
    /\ n_rows' = n_rows + 1
    /\ UNCHANGED <<pc, ignore_id, seq_ids, demo_sets, case_sets>>
    /\ UNCHANGED <<aggVars, flagVars, dictVars, unitVars, dict_file>>

load_master_row == MasterStep(VLoads, Groups, MaxRows)

(***************************************************************************)
(* load_demo, load_case, load_pico_data: one loop iteration each.          *)
(***************************************************************************)
\* load_demo creating a record for an identifier that has none.
DemoStoreCreates(store, r) ==
    LET id   == At(r, 1)
        data == IF id \in Keys(store) THEN store[id] ELSE NewRecord("")
    IN  Put(store, id,
            [data EXCEPT !.outcome = At(r, 7), !.sex = At(r, 3), !.demo = r])

DemoStore(store, r) ==
    LET id == At(r, 1)
    IN  IF id \notin Keys(store) THEN store
        ELSE [store EXCEPT ![id] =
                 [@ EXCEPT !.outcome = At(r, 7), !.sex = At(r, 3), !.demo = r]]

load_demo_row ==
    /\ pc \in {"load_master", "load_demo"}
    /\ n_rows < MaxRows
    /\ \E id \in Ids, sex \in Sexes, outcome \in Outcomes :
          LET r == DemoRow(id, sex, outcome)
          IN  /\ row' = r
              /\ src_data' = DemoStore(src_data, r)
              /\ demo_sets' = IF id \in Keys(src_data)
                              THEN [demo_sets EXCEPT ![id] = @ + 1] ELSE demo_sets
    /\ n_rows' = n_rows + 1
    /\ pc' = "load_demo"
    /\ UNCHANGED <<ignore_id, src_keys, seq_ids, master_seen, case_sets>>
    /\ UNCHANGED <<aggVars, flagVars, dictVars, unitVars, dict_file>>


CaseStore(store, r) ==
    LET id == At(r, 0)
    IN  IF id \notin Keys(store) THEN store
        ELSE [store EXCEPT ![id] = [@ EXCEPT !.case = r]]

load_case_row ==
    /\ pc \in {"load_master", "load_demo", "load_case"}
    /\ n_rows < MaxRows
    /\ \E id \in Ids, cell \in CaseCells :
          LET r == CaseRow(id, cell)
          IN  /\ row' = r
              /\ src_data' = CaseStore(src_data, r)
              /\ case_sets' = IF id \in Keys(src_data)
                              THEN [case_sets EXCEPT ![id] = @ + 1] ELSE case_sets
    /\ n_rows' = n_rows + 1
    /\ pc' = "load_case"
    /\ UNCHANGED <<ignore_id, src_keys, seq_ids, master_seen, demo_sets>>
    /\ UNCHANGED <<aggVars, flagVars, dictVars, unitVars, dict_file>>


PicoStore(store, r) ==
    LET id == At(r, 3)
    IN  IF id \notin Keys(store) THEN store
        ELSE [store EXCEPT ![id] = [@ EXCEPT !.pico = Append(@, r)]]

PicoStep(max) ==
    /\ pc \in LoaderPcs
    /\ n_rows < max
    /\ \E id \in Ids, cell \in PicoCells :
          LET r == PicoRow(id, Ordinal(src_data, id, "pico"), cell)
          IN  /\ row' = r
              /\ src_data' = PicoStore(src_data, r)
    /\ n_rows' = n_rows + 1
    /\ pc' = "load_pico"
    /\ UNCHANGED <<ignore_id, src_keys, seq_ids>>
    /\ UNCHANGED <<aggVars, flagVars, dictVars, unitVars, dict_file, histVars>>

load_pico_row == PicoStep(MaxRows)

\* Lines 683-690: the sequencing sources are read only under -seq.
load_seq ==
    /\ pc \in LoaderPcs
    /\ aggregate_seq_data
    /\ \E S \in SeqIdSets : seq_ids' = S
    /\ pc' = "add_demo"
    /\ row' = <<>>
    /\ UNCHANGED <<ignore_id, src_data, src_keys, n_rows>>
    /\ UNCHANGED <<aggVars, flagVars, dictVars, unitVars, dict_file, histVars>>

(***************************************************************************)
(* add_variable and set_var_ranges, on the record of the five metadata     *)
(* structures.                                                             *)
(***************************************************************************)
Meta == [variables |-> variables, var_titles |-> var_titles, var_types |-> var_types,
         var_ranges |-> var_ranges, var_groups |-> var_groups]

\* Position of the first TRUE in a sequence of tests, 0 when there is none.
IndexWhere(tests) ==
    IF \E i \in 1..Len(tests) : tests[i]
    THEN CHOOSE i \in 1..Len(tests) : tests[i] /\ \A j \in 1..(i - 1) : ~tests[j]
    ELSE 0

\* var_groups[gname][tname].append(name), creating the group and the table
\* when they are new.
GroupsAdd(groups, gname, tname, name) ==
    LET gi     == IndexWhere([i \in 1..Len(groups) |-> groups[i].gname = gname])
        gs     == IF gi = 0 THEN Append(groups, [gname |-> gname, tables |-> <<>>])
                  ELSE groups
        g      == IF gi = 0 THEN Len(gs) ELSE gi
        ti     == IndexWhere([i \in 1..Len(gs[g].tables) |->
                                    gs[g].tables[i].tname = tname])
        ts     == IF ti = 0 THEN Append(gs[g].tables, [tname |-> tname, names |-> <<>>])
                  ELSE gs[g].tables
        t      == IF ti = 0 THEN Len(ts) ELSE ti
    IN  [gs EXCEPT ![g].tables = [ts EXCEPT ![t].names = Append(@, name)]]

add_variable(m, name, title, type, gname, tname) ==
    [m EXCEPT !.variables = Append(@, name),
              !.var_titles = Put(@, name, title),
              !.var_types = Put(@, name, type),
              !.var_groups = GroupsAdd(@, gname, tname, name)]

set_var_ranges(m, name, ranges) ==
    [m EXCEPT !.var_ranges = Put(@, name, ranges)]

\* The schema loop of add_demo_data and add_case_data over a dictionary.
RECURSIVE DeclareDict(_, _)
DeclareDict(m, dict) ==
    IF dict = <<>> THEN m
    ELSE LET var == Head(dict).info
             m1  == add_variable(m, var.name, var.alias, var.type, var.group, var.table)
             m2  == IF var.has_ranges THEN set_var_ranges(m1, var.name, var.ranges)
                    ELSE m1
         IN  DeclareDict(m2, Tail(dict))

SetMeta(m) ==
    /\ variables' = m.variables
    /\ var_titles' = m.var_titles
    /\ var_types' = m.var_types
    /\ var_ranges' = m.var_ranges
    /\ var_groups' = m.var_groups

(***************************************************************************)
(* add_demo_data                                                           *)
(***************************************************************************)
\* Lines 399-407: the cell of one dictionary column for one patient.
DemoCell(data, entry) ==
    LET var == entry.info
        val == IF data.demo # <<>> THEN At(data.demo, entry.col) ELSE ""
    IN  IF var.has_ranges
        THEN IF val \in Keys(var.idict) THEN var.idict[val] ELSE ""
        ELSE val

DemoOutRow(id, data) ==
    <<id, IF data.group = "Epos" THEN "1" ELSE "0">>
        \o [i \in 1..Len(demo_dict) |-> DemoCell(data, demo_dict[i])]

DemoSchema(m) ==
    LET m1 == add_variable(m, "GID", "Patient ID", "String", "Demographics",
                           "Basic Information")
        m2 == set_var_ranges(m1, "GID", << <<"label">> >>)
        m3 == add_variable(m2, "DIAG", "Diagnosis", "category", "Demographics",
                           "Basic Information")
        m4 == set_var_ranges(m3, "DIAG", << <<"1", "Positive">>, <<"0", "Negative">> >>)
    IN  DeclareDict(m4, demo_dict)

add_demo_data ==
    /\ \/ pc \in LoaderPcs /\ ~aggregate_seq_data
       \/ pc = "add_demo"
    /\ SetMeta(DemoSchema(Meta))
    /\ mira_data' = [id \in Keys(src_data) |-> DemoOutRow(id, src_data[id])]
    /\ pc' = "add_case"
    /\ row' = <<>>
    /\ UNCHANGED <<ignore_id, src_data, src_keys, seq_ids, n_rows>>
    /\ UNCHANGED <<flagVars, dictVars, unitVars, dict_file, histVars>>

(***************************************************************************)
(* add_case_data.  var["idict"][val] raises KeyError when val is not a key *)
(* of the code map: the run stops there, with the rows of the patients     *)
(* before it extended and the row of that patient extended up to the       *)
(* column that failed.                                                     *)
(***************************************************************************)
CaseRaw(data, entry) ==
    IF data.case # <<>> THEN At(data.case, entry.col) ELSE ""

CaseFails(data, entry) ==
    entry.info.has_ranges /\ CaseRaw(data, entry) \notin Keys(entry.info.idict)

CaseCell(data, entry) ==
    IF entry.info.has_ranges THEN entry.info.idict[CaseRaw(data, entry)]
    ELSE CaseRaw(data, entry)

\* Number of cells appended to the row of a patient before the loop over the
\* dictionary ends or raises.
CaseCount(data) ==
    LET bad == IndexWhere([i \in 1..Len(case_dict) |-> CaseFails(data, case_dict[i])])
    IN  IF bad = 0 THEN Len(case_dict) ELSE bad - 1

PatientFails(data) == CaseCount(data) < Len(case_dict)

CaseOutRow(cells, data) ==
    cells \o [i \in 1..CaseCount(data) |-> CaseCell(data, case_dict[i])]

\* Position in src_keys of the first patient whose cells raises, 0 when none does.
FirstFailing(store, keys) ==
    IndexWhere([i \in 1..Len(keys) |-> PatientFails(store[keys[i]])])

add_case_data ==
    /\ pc = "add_case"
    /\ SetMeta(DeclareDict(Meta, case_dict))
    /\ LET bad == FirstFailing(src_data, src_keys)
           Pos(id) == CHOOSE i \in 1..Len(src_keys) : src_keys[i] = id
       IN  /\ mira_data' = [id \in Keys(mira_data) |->
                               IF bad = 0 \/ Pos(id) <= bad
                               THEN CaseOutRow(mira_data[id], src_data[id])
                               ELSE mira_data[id]]
           /\ pc' = IF bad = 0 THEN "add_pico" ELSE "aborted"
    /\ UNCHANGED <<ignore_id, src_data, src_keys, seq_ids, row, n_rows>>
    /\ UNCHANGED <<flagVars, dictVars, unitVars, dict_file, histVars>>

(***************************************************************************)
(* add_pico_data                                                           *)
(***************************************************************************)
\* The literal "\\N" of lines 465-530 and 594.
Sentinel == "\\N"

\* ["\\N"] * n
Pad(n) == [i \in 1..n |-> Sentinel]

\* load_pico_info on a piccolo-expected.csv that declares one analyte, read
\* from column 7 of the metabolic-panel table (the gender ranges are not used
\* by the aggregation).
pico_names == <<"ALB">>
pico_info == [name \in {"ALB"} |-> [title |-> "Albumin [g/dL]", column |-> 7]]

Max(a, b) == IF a >= b THEN a ELSE b
Min(a, b) == IF a <= b THEN a ELSE b

\* Lines 439-444 and 473-478: the longest series of a field over the store.
RECURSIVE MaxLen(_, _, _)
MaxLen(store, keys, field) ==
    IF keys = <<>> THEN 0
    ELSE LET series == store[Head(keys)][field]
             rest   == MaxLen(store, Tail(keys), field)
         IN  IF series # <<>> THEN Max(Len(series), rest) ELSE rest

RECURSIVE DeclarePicoNames(_, _, _)
DeclarePicoNames(m, names, i) ==
    IF names = <<>> THEN m
    ELSE LET name == Head(names)
             info == pico_info[name]
         IN  DeclarePicoNames(
                 add_variable(m, name \o "_" \o ToString(i),
                              info.title \o " day " \o ToString(i), "float",
                              "Laboratory", "Metabolic Panel Day " \o ToString(i)),
                 Tail(names), i)

RECURSIVE DeclarePico(_, _, _)
DeclarePico(m, i, max_len) ==
    IF i > max_len THEN m
    ELSE LET m1 == add_variable(m, "DOPANEL_" \o ToString(i),
                                "Date of metabolic panel " \o ToString(i), "date",
                                "Laboratory", "Metabolic Panel Day " \o ToString(i))
         IN  DeclarePico(DeclarePicoNames(m1, pico_names, i), i + 1, max_len)

\* Lines 460-464: the cells of one panel.
PicoCellsOf(pico) ==
    <<At(pico, 6)>> \o [k \in 1..Len(pico_names) |->
                          At(pico, pico_info[pico_names[k]].column)]

RECURSIVE PicoSeriesCells(_)
PicoSeriesCells(series) ==
    IF series = <<>> THEN <<>>
    ELSE PicoCellsOf(Head(series)) \o PicoSeriesCells(Tail(series))

\* add_pico_data writing the padding before the panels.
PicoOutRowPadFirst(cells, data, count) ==
    LET series == data.pico
    IN  IF series # <<>>
        THEN cells \o Pad(count - Len(series) * (1 + Len(pico_names)))
                   \o PicoSeriesCells(series)
        ELSE cells \o Pad(count)

PicoOutRow(cells, data, count) ==
    LET series == data.pico
    IN  IF series # <<>>
        THEN cells \o PicoSeriesCells(series)
                 \o Pad(count - Len(series) * (1 + Len(pico_names)))
        ELSE cells \o Pad(count)

add_pico_data ==
    /\ pc = "add_pico"
    /\ LET max_len == MaxLen(src_data, src_keys, "pico")
           count   == max_len * (1 + Len(pico_names))
       IN  /\ SetMeta(DeclarePico(Meta, 1, max_len))
           /\ mira_data' = [id \in Keys(mira_data) |->
                               PicoOutRow(mira_data[id], src_data[id], count)]
    /\ pc' = "add_qpcr"
    /\ UNCHANGED <<ignore_id, src_data, src_keys, seq_ids, row, n_rows>>
    /\ UNCHANGED <<flagVars, dictVars, unitVars, dict_file, histVars>>

(***************************************************************************)
(* add_qpcr_data.  A float is modelled by an integer: the viral loads read *)
(* are chosen so that float(value) and log10(1 + float(value)) are whole   *)
(* numbers.  Only the mean, a quotient, is not whole.                      *)
(***************************************************************************)
\* float(value) of a numeric cell.
ToFloat(value) == CHOOSE n \in 0..99 : ToString(n) = value

\* math.log10(x) on the powers of ten.
Log10(x) == CHOOSE e \in 0..2 : x = 10 ^ e

\* str(f) of a whole float: "9.0".
FloatStr(f) == ToString(f) \o ".0"

\* The decimal digits of r / d, r < d, as Python prints a quotient (cut after
\* 16 digits here, where Python rounds).
RECURSIVE FracDigits(_, _, _)
FracDigits(r, d, k) ==
    IF k = 0 \/ r = 0 THEN ""
    ELSE ToString((r * 10) \div d) \o FracDigits((r * 10) % d, d, k - 1)

\* str(a / n)
DivStr(a, n) ==
    IF a % n = 0 THEN FloatStr(a \div n)
    ELSE ToString(a \div n) \o "." \o FracDigits(a % n, n, 16)

\* Lines 504-505
FVal(value, log) == IF log THEN Log10(1 + ToFloat(value)) ELSE ToFloat(value)

\* None is <<>>, a float f is <<f>>; `if first_qpcr:` is Truthy.
Truthy(x) == x # <<>> /\ x[1] # 0

NoStats == [first |-> <<>>, max |-> <<>>, min |-> <<>>, ave |-> <<>>, slen |-> 0]

\* The loop body counting the readings anew when it starts the sums anew.
StatsStepResetLen(acc, value, log) ==
    IF value = "" THEN acc
    ELSE LET fval == FVal(value, log)
         IN  IF Truthy(acc.first)
             THEN [first |-> acc.first,
                   max   |-> <<Max(acc.max[1], fval)>>,
                   min   |-> <<Min(acc.min[1], fval)>>,
                   ave   |-> <<acc.ave[1] + fval>>,
                   slen  |-> acc.slen + 1]
             ELSE [first |-> <<fval>>, max |-> <<fval>>, min |-> <<fval>>,
                   ave |-> <<fval>>, slen |-> 1]

\* Lines 502-515: one iteration of the loop over the series.
StatsStep(acc, value, log) ==
    IF value = "" THEN acc
    ELSE LET fval == FVal(value, log)
         IN  IF Truthy(acc.first)
             THEN [first |-> acc.first,
                   max   |-> <<Max(acc.max[1], fval)>>,
                   min   |-> <<Min(acc.min[1], fval)>>,
                   ave   |-> <<acc.ave[1] + fval>>,
                   slen  |-> acc.slen + 1]
             ELSE [first |-> <<fval>>, max |-> <<fval>>, min |-> <<fval>>,
                   ave |-> <<fval>>, slen |-> acc.slen + 1]

RECURSIVE QpcrStats(_, _, _)
QpcrStats(acc, series, log) ==
    IF series = <<>> THEN acc
    ELSE QpcrStats(StatsStep(acc, Head(series)[3], log), Tail(series), log)

\* Lines 518-521: the four derived cells.
QpcrSummary(series, log) ==
    LET st == QpcrStats(NoStats, series, log)
    IN  IF Truthy(st.first)
        THEN <<FloatStr(st.first[1]), FloatStr(st.max[1]), FloatStr(st.min[1]),
               DivStr(st.ave[1], st.slen)>>
        ELSE Pad(4)

\* Line 516: qpcr[2] = str(fval), in place in the store.
QpcrConverted(series, log) ==
    [i \in 1..Len(series) |->
        IF series[i][3] # "" THEN <<series[i][1], series[i][2],
                                    FloatStr(FVal(series[i][3], log))>>
        ELSE series[i]]

\* Lines 523-526
RECURSIVE QpcrSeriesCells(_)
QpcrSeriesCells(series) ==
    IF series = <<>> THEN <<>>
    ELSE <<Head(series)[2], Head(series)[3]>> \o QpcrSeriesCells(Tail(series))

\* add_qpcr_data padding without counting the four derived cells.
QpcrOutRowLongPad(cells, data, count, log) ==
    LET series == data.qpcr
    IN  IF series # <<>>
        THEN cells \o QpcrSummary(series, log)
                   \o QpcrSeriesCells(QpcrConverted(series, log))
                   \o Pad(count - Len(series) * 2)
        ELSE cells \o Pad(count)

QpcrOutRow(cells, data, count, log) ==
    LET series == data.qpcr
    IN  IF series # <<>>
        THEN cells \o QpcrSummary(series, log)
                 \o QpcrSeriesCells(QpcrConverted(series, log))
                 \o Pad(count - 4 - Len(series) * 2)
        ELSE cells \o Pad(count)

RECURSIVE DeclareQpcrDays(_, _, _, _)
DeclareQpcrDays(m, i, max_len, log_str) ==
    IF i > max_len THEN m
    ELSE LET m1 == add_variable(m, "DOPCR_" \o ToString(i),
                                "Date of qPCR " \o ToString(i), "date", "Laboratory",
                                "Viral Load (qPCR) day " \o ToString(i))
             m2 == add_variable(m1, "PCR_" \o ToString(i),
                                "EBOV copies/mL plasma" \o log_str \o " day "
                                    \o ToString(i),
                                "float", "Laboratory",
                                "Viral Load (qPCR) day " \o ToString(i))
         IN  DeclareQpcrDays(m2, i + 1, max_len, log_str)

DeclareQpcr(m, max_len, log) ==
    LET log_str == IF log THEN " (log units)" ELSE ""
        tname   == "Viral Load (qPCR) summary"
        m1 == add_variable(m, "PCR", "First measured viral load" \o log_str, "float",
                           "Laboratory", tname)
        m2 == add_variable(m1, "PCR_MAX", "Maximum measured viral load" \o log_str,
                           "float", "Laboratory", tname)
        m3 == add_variable(m2, "PCR_MIN", "Minimum measured viral load" \o log_str,
                           "float", "Laboratory", tname)
        m4 == add_variable(m3, "PCR_AVE", "Averaged viral load" \o log_str, "float",
                           "Laboratory", tname)
    IN  DeclareQpcrDays(m4, 1, max_len, log_str)

add_qpcr_data ==
    /\ pc = "add_qpcr"
    /\ LET max_len == MaxLen(src_data, src_keys, "qpcr")
           count   == 4 + max_len * 2
       IN  /\ SetMeta(DeclareQpcr(Meta, max_len, convert_qpcr_log))
           /\ mira_data' = [id \in Keys(mira_data) |->
                               QpcrOutRow(mira_data[id], src_data[id], count,
                                          convert_qpcr_log)]
    /\ src_data' = [id \in Keys(src_data) |->
                       [src_data[id] EXCEPT
                           !.qpcr = QpcrConverted(@, convert_qpcr_log)]]
    /\ pc' = IF aggregate_seq_data THEN "add_seq" ELSE "save_data"
    /\ UNCHANGED <<ignore_id, src_keys, seq_ids, row, n_rows>>
    /\ UNCHANGED <<flagVars, dictVars, unitVars, dict_file, histVars>>

(***************************************************************************)
(* add_seq_data.  The three sequencing sources hold data for the           *)
(* identifiers in seq_ids: one SNP, its allele frequency, and the cluster  *)
(* assignment "2.1".                                                       *)
(***************************************************************************)
snp_vars == << <<"SNP10218", "SNP @10218">> >>
af_vars == << <<"AF10218", "Allele Frequency @10218">> >>
cl_vars == << <<"CLUST", "Cluster">>, <<"MCLUST", "# mutations from cluster">>,
              <<"SCLUST", "Sub-cluster">>, <<"MSCLUST", "# mutations from sub-cluster">> >>

snp_data == [var \in {"SNP10218"} |-> [id \in seq_ids |-> "1"]]
af_data == [var \in {"AF10218"} |-> [id \in seq_ids |-> "0.5"]]
cl_data == [var \in {"CLUST", "MCLUST", "SCLUST", "MSCLUST"} |->
               [id \in seq_ids |-> CASE var = "CLUST" -> "2"
                                     [] var = "MCLUST" -> "1"
                                     [] OTHER -> ""]]

RECURSIVE DeclareSnp(_, _)
DeclareSnp(m, vs) ==
    IF vs = <<>> THEN m
    ELSE LET m1 == add_variable(m, Head(vs)[1], Head(vs)[2], "category", "Sequencing",
                                "Viral SNPs")
         IN  DeclareSnp(set_var_ranges(m1, Head(vs)[1], << <<"1", "Yes">>, <<"0", "No">> >>),
                        Tail(vs))

RECURSIVE DeclareAf(_, _)
DeclareAf(m, vs) ==
    IF vs = <<>> THEN m
    ELSE DeclareAf(add_variable(m, Head(vs)[1], Head(vs)[2], "float", "Sequencing",
                                "Allele Frequencies"), Tail(vs))

\* Lines 535-545
DeclareSeq(m) ==
    LET title(var) == (CHOOSE v \in Range(cl_vars) : v[1] = var)[2]
        m1 == DeclareAf(DeclareSnp(m, snp_vars), af_vars)
        m2 == add_variable(m1, "CLUST", title("CLUST"), "category", "Sequencing",
                           "Clustering")
        m3 == set_var_ranges(m2, "CLUST", << <<"1", "Cluster 1">>, <<"2", "Cluster 2">>,
                                              <<"3", "Cluster 3">> >>)
        m4 == add_variable(m3, "MCLUST", title("MCLUST"), "int", "Sequencing",
                           "Clustering")
        m5 == add_variable(m4, "SCLUST", title("SCLUST"), "category", "Sequencing",
                           "Clustering")
        m6 == set_var_ranges(m5, "SCLUST", << <<"1", "Sub-cluster a">>,
                                               <<"2", "Sub-cluster b">>,
                                               <<"3", "Sub-cluster c">> >>)
    IN  add_variable(m6, "MSCLUST", title("MSCLUST"), "int", "Sequencing", "Clustering")

\* Lines 547-569: one cell per variable of a source, "" without data.
SeqCells(id, vs, data) ==
    [i \in 1..Len(vs) |->
        IF id \in Keys(data[vs[i][1]]) THEN data[vs[i][1]][id] ELSE ""]

add_seq_data ==
    /\ pc = "add_seq"
    /\ SetMeta(DeclareSeq(Meta))
    /\ mira_data' = [id \in Keys(mira_data) |->
                        mira_data[id] \o SeqCells(id, snp_vars, snp_data)
                                      \o SeqCells(id, af_vars, af_data)
                                      \o SeqCells(id, cl_vars, cl_data)]
    /\ pc' = "save_data"
    /\ UNCHANGED <<ignore_id, src_data, src_keys, seq_ids, row, n_rows>>
    /\ UNCHANGED <<flagVars, dictVars, unitVars, dict_file, histVars>>

(***************************************************************************)
(* save_data: every empty cell becomes the sentinel, in place.             *)
(***************************************************************************)
\* save_data writing the cells as they are.
SavedRowKeepsEmpty(cells) == cells

SavedRow(cells) == [i \in 1..Len(cells) |-> IF cells[i] = "" THEN Sentinel ELSE cells[i]]

save_data ==
    /\ pc = "save_data"
    /\ mira_data' = [id \in Keys(mira_data) |-> SavedRow(mira_data[id])]
    /\ pc' = "save_dict"
    /\ UNCHANGED <<ignore_id, src_data, src_keys, seq_ids, row, n_rows>>
    /\ UNCHANGED <<variables, var_titles, var_types, var_ranges, var_groups>>
    /\ UNCHANGED <<flagVars, dictVars, unitVars, dict_file, histVars>>

(***************************************************************************)
(* save_dict: one row title,type[,codeSpec] per declared variable.         *)
(***************************************************************************)
\* `var in var_ranges and var_ranges[var]`: the range string is not empty.
HasRanges(m, var) == var \in Keys(m.var_ranges) /\ m.var_ranges[var] # << <<"">> >>

SaveDictRows(m) ==
    [i \in 1..Len(m.variables) |->
        LET var == m.variables[i]
        IN  IF HasRanges(m, var)
            THEN <<m.var_titles[var], m.var_types[var], m.var_ranges[var]>>
            ELSE <<m.var_titles[var], m.var_types[var]>>]

save_dict ==
    /\ pc = "save_dict"
    /\ dict_file' = SaveDictRows(Meta)
    /\ pc' = "done"
    /\ UNCHANGED <<ignore_id, src_data, src_keys, seq_ids, row, n_rows>>
    /\ UNCHANGED <<aggVars, flagVars, dictVars, unitVars, histVars>>

Next ==
    \/ load_ignore
    \/ load_master_row
    \/ load_demo_row
    \/ load_case_row
    \/ load_pico_row
    \/ load_seq
    \/ add_demo_data
    \/ add_case_data
    \/ add_pico_data
    \/ add_qpcr_data
    \/ add_seq_data
    \/ save_data
    \/ save_dict

Spec == Init /\ [][Next]_vars

(***************************************************************************)
(* Runs with long series: the demographics and case-notification tables    *)
(* have no rows, and every master row is accepted unless its patient is    *)
(* ignored.                                                                *)
(***************************************************************************)
load_master_row_panels == MasterStep(PanelVLoads, PanelGroups, MaxPanelRows)

load_pico_row_panels == PicoStep(MaxPanelRows)

NextPanels ==
    \/ load_ignore
    \/ load_master_row_panels
    \/ load_pico_row_panels
    \/ load_seq
    \/ add_demo_data
    \/ add_case_data
    \/ add_pico_data
    \/ add_qpcr_data
    \/ add_seq_data
    \/ save_data
    \/ save_dict

SpecPanels == Init /\ [][NextPanels]_vars

(***************************************************************************)
(* Functions called on their own.  A string whose characters matter is the *)
(* tuple of its characters.                                                *)
(***************************************************************************)
\* Tuples over S of length at most n.
SeqsUpTo(S, n) == UNION {[1..k -> S] : k \in 0..n}

\* s.split(sep): the parts between the separators, at least one.
RECURSIVE Split(_, _)
Split(s, sep) ==
    IF s = <<>> THEN << <<>> >>
    ELSE LET rest == Split(Tail(s), sep)
         IN  IF Head(s) = sep THEN << <<>> >> \o rest
             ELSE << <<Head(s)>> \o Head(rest) >> \o Tail(rest)

\* re.search("\d", id) on the characters used.
IsDigit(c) == c \in {"0", "1", "2", "3", "4", "5", "6", "7", "8", "9"}

\* res.start(): the position (from 0) of the first digit at or after pos,
\* Len(id) when there is none.
RECURSIVE SearchDigit(_, _)
SearchDigit(id, pos) ==
    IF pos >= Len(id) THEN Len(id)
    ELSE IF IsDigit(At(id, pos)) THEN pos
    ELSE SearchDigit(id, pos + 1)

\* normalize_id inserting the separator before the last digit.
normalize_id_last(id) ==
    LET digits == {k \in 1..Len(id) : IsDigit(id[k])}
        pos    == CHOOSE k \in digits : \A j \in digits : j <= k
    IN  IF digits # {}
        THEN [id |-> SubSeq(id, 1, pos - 1) \o <<"-">> \o SubSeq(id, pos, Len(id)),
              warned |-> FALSE]
        ELSE [id |-> id, warned |-> TRUE]

\* normalize_id: the identifier returned, and whether the warning was printed.
normalize_id(id) ==
    LET pos == SearchDigit(id, 0)
    IN  IF pos < Len(id)
        THEN [id |-> SubSeq(id, 1, pos) \o <<"-">> \o SubSeq(id, pos + 1, Len(id)),
              warned |-> FALSE]
        ELSE [id |-> id, warned |-> TRUE]

\* Lines 327-340 of load_cluster_data on the code row[2]: extra = parts[1]
\* raises IndexError when the code has no dot.
ClusterRowRaises(code) == Len(Split(code, ".")) < 2

ClusterRow(code) ==
    LET parts  == Split(code, ".")
        cvalue == parts[1]
        extra  == parts[2]
        cmutat == IF 0 < Len(extra) THEN <<extra[1]>> ELSE <<>>
        svalue == IF 1 < Len(extra) THEN <<extra[2]>> ELSE <<>>
        smutat == IF 2 < Len(extra) THEN <<extra[3]>>
                  ELSE IF 1 < Len(extra) THEN <<"0">> ELSE <<>>
    IN  [CLUST |-> cvalue, MCLUST |-> cmutat, SCLUST |-> svalue, MSCLUST |-> smutat]

\* Rows of a dictionary file, well formed and not: a position, up to
\* MaxDictFields fields, and a code spec as the seventh.
Positions == {"3", "x"}
CodeSpecs ==
    { << <<"1", "Male">>, <<"2", "Female">> >>,   \* 1:Male;2:Female
      << <<"1", "Male">>, <<"">> >>,              \* 1:Male;
      << <<"Male">> >>,                           \* Male
      << <<"1", "Male", "x">> >> }                \* 1:Male:x
DictRow(pos, n, codes) ==
    SubSeq(<<pos, "SEX", "Sex", "Demographics", "Basic Information", "category", codes>>
               \o [i \in 1..MaxDictFields |-> "x"],
           1, n)
DictRows == {DictRow(pos, n, codes) :
                pos \in Positions, n \in 0..MaxDictFields, codes \in CodeSpecs}
DictFiles == SeqsUpTo(DictRows, MaxDictRows) \ {<<>>}

\* Cluster codes and raw identifiers.
ClusterCodes == SeqsUpTo({"1", "a", "."}, MaxCodeLen)
RawIds == SeqsUpTo({"G", "-", "1", "2"}, MaxIdLen)

\* No run of the main script is going on.
NoRun ==
    /\ aggregate_seq_data = FALSE
    /\ convert_qpcr_log = FALSE
    /\ ignore_id = <<>>
    /\ src_data = EmptyDict
    /\ src_keys = <<>>
    /\ mira_data = EmptyDict
    /\ variables = <<>>
    /\ var_titles = EmptyDict
    /\ var_types = EmptyDict
    /\ var_ranges = EmptyDict
    /\ var_groups = <<>>
    /\ seq_ids = {}
    /\ row = <<>>
    /\ n_rows = 0
    /\ master_seen = {}
    /\ demo_sets = [id \in Ids |-> 0]
    /\ case_sets = [id \in Ids |-> 0]
    /\ demo_dict = <<>>
    /\ case_dict = <<>>
    /\ dict_file = <<>>

runVars == <<aggregate_seq_data, convert_qpcr_log, ignore_id, src_data, src_keys,
             mira_data, variables, var_titles, var_types, var_ranges, var_groups,
             seq_ids, row, n_rows, master_seen, demo_sets, case_sets,
             demo_dict, case_dict, dict_file>>

InitCalls ==
    /\ NoRun
    /\ res = <<>>
    /\ \/ pc = "load_dict" /\ arg \in DictFiles
       \/ pc = "load_cluster_data" /\ arg \in ClusterCodes
       \/ pc = "normalize_id" /\ arg \in RawIds

load_dict_call ==
    /\ pc = "load_dict"
    /\ res' = IF load_dict_raises(arg) THEN [raised |-> TRUE, dict |-> <<>>]
              ELSE [raised |-> FALSE, dict |-> load_dict(arg)]
    /\ pc' = "load_dict_done"
    /\ UNCHANGED <<arg, runVars>>

load_cluster_row ==
    /\ pc = "load_cluster_data"
    /\ res' = IF ClusterRowRaises(arg) THEN [raised |-> TRUE, cells |-> <<>>]
              ELSE [raised |-> FALSE, cells |-> ClusterRow(arg)]
    /\ pc' = "load_cluster_data_done"
    /\ UNCHANGED <<arg, runVars>>

normalize_id_call ==
    /\ pc = "normalize_id"
    /\ res' = normalize_id(arg)
    /\ pc' = "normalize_id_done"
    /\ UNCHANGED <<arg, runVars>>

NextCalls ==
    \/ load_dict_call
    \/ load_cluster_row
    \/ normalize_id_call

SpecCalls == InitCalls /\ [][NextCalls]_vars

(***************************************************************************)
(* Runs with other dictionaries: demo-dict.csv and case-dict.csv are drawn *)
(* from a set of well-formed files, the master table has few rows and the  *)
(* other tables none.                                                      *)
(***************************************************************************)
AgeRow == <<"2", "AGE", "Age", "Demographics", "Basic Information", "int">>

SexAgainRow(col, group, table) ==
    <<col, "SEX", "Sex", group, table, "category",
      << <<"1", "Male">>, <<"2", "Female">> >> >>

CoughRow ==
    <<"2", "COUGH", "Cough", "Clinical", "Symptoms", "category",
      << <<"1", "Yes">>, <<"0", "No">> >> >>

DemoDictFiles ==
    { DemoDictRows,
      DemoDictRows \o <<AgeRow>>,
      DemoDictRows \o <<SexAgainRow("5", "Demographics", "Other")>> }

CaseDictFiles ==
    { CaseDictRows,
      CaseDictRows \o <<CoughRow>>,
      CaseDictRows \o <<SexAgainRow("2", "Clinical", "Symptoms")>> }

InitSchema ==
    /\ pc = "load_ignore"
    /\ aggregate_seq_data \in BOOLEAN
    /\ convert_qpcr_log \in BOOLEAN
    /\ ignore_id = <<>>
    /\ src_data = EmptyDict
    /\ src_keys = <<>>
    /\ mira_data = EmptyDict
    /\ variables = <<>>
    /\ var_titles = EmptyDict
    /\ var_types = EmptyDict
    /\ var_ranges = EmptyDict
    /\ var_groups = <<>>
    /\ seq_ids = {}
    /\ row = <<>>
    /\ n_rows = 0
    /\ master_seen = {}
    /\ demo_sets = [id \in Ids |-> 0]
    /\ case_sets = [id \in Ids |-> 0]
    /\ \E f \in DemoDictFiles : demo_dict = load_dict(f)
    /\ \E f \in CaseDictFiles : case_dict = load_dict(f)
    /\ dict_file = <<>>
    /\ arg = <<>>
    /\ res = <<>>

load_master_row_schema == MasterStep(PanelVLoads, PanelGroups, MaxSchemaRows)

NextSchema ==
    \/ load_ignore
    \/ load_master_row_schema
    \/ load_seq
    \/ add_demo_data
    \/ add_case_data
    \/ add_pico_data
    \/ add_qpcr_data
    \/ add_seq_data
    \/ save_data
    \/ save_dict

SpecSchema == InitSchema /\ [][NextSchema]_vars

(***************************************************************************)
(* Properties.                                                             *)
(***************************************************************************)
\* Positions of the main script at which a phase has returned.
AfterDemo == {"add_case", "add_pico", "add_qpcr", "add_seq", "save_data", "save_dict", "done"}
AfterCase == {"add_pico", "add_qpcr", "add_seq", "save_data", "save_dict", "done"}
AfterPico == {"add_qpcr", "add_seq", "save_data", "save_dict", "done"}
AfterQpcr == {"add_seq", "save_data", "save_dict", "done"}

\* The column of a variable in the table, as a reader of the header finds it.
Col(name) == CHOOSE i \in 1..Len(variables) : variables[i] = name

Cell(id, name) == mira_data[id][Col(name)]

\* A cell as it stands in the table: save_data has replaced "" by the sentinel.
Shown(v) == IF pc \in {"save_dict", "done"} /\ v = "" THEN Sentinel ELSE v

SetMax(S) == IF S = {} THEN 0 ELSE CHOOSE m \in S : \A x \in S : x <= m

\* The longest series of a family over all patients of the store.
LongestSeries(field) == SetMax({Len(src_data[id][field]) : id \in Keys(src_data)})

\* C1: after each aggregation phase that has returned, every patient of the
\* store has exactly one output row, and every row is as long as the list of
\* the variables declared so far.
C1_RowWidth ==
    pc \in AfterDemo =>
        /\ Keys(mira_data) = Keys(src_data)
        /\ \A id \in Keys(mira_data) : Len(mira_data[id]) = Len(variables)

\* C1 witness: a finished run with sequencing data, two patients and series
\* of different lengths.
C1_Witness ==
    /\ pc = "done"
    /\ aggregate_seq_data
    /\ \E a, b \in Keys(src_data) : Len(src_data[a].qpcr) < Len(src_data[b].qpcr)
    /\ \A id \in Keys(mira_data) : Len(mira_data[id]) = Len(variables)

\* C2: in each repeated family, a patient with k readings, k below the longest
\* series max of the store, has its k readings in the first k slot groups, in
\* series order, and only the sentinel in the (max - k) slot groups after them;
\* the family has exactly max slot groups.
C2_QpcrSlots(id) ==
    LET series == src_data[id].qpcr
        max    == LongestSeries("qpcr")
    IN  /\ \A i \in 1..Len(series) :
              /\ Cell(id, "DOPCR_" \o ToString(i)) = Shown(series[i][2])
              /\ Cell(id, "PCR_" \o ToString(i)) = Shown(series[i][3])
        /\ \A i \in (Len(series) + 1)..max :
              /\ Cell(id, "DOPCR_" \o ToString(i)) = Sentinel
              /\ Cell(id, "PCR_" \o ToString(i)) = Sentinel
        /\ \A i \in 1..(max + 1) :
              ("DOPCR_" \o ToString(i)) \in Range(variables) <=> i <= max

C2_PicoSlots(id) ==
    LET series == src_data[id].pico
        max    == LongestSeries("pico")
    IN  /\ \A i \in 1..Len(series) :
              /\ Cell(id, "DOPANEL_" \o ToString(i)) = Shown(At(series[i], 6))
              /\ \A k \in 1..Len(pico_names) :
                    Cell(id, pico_names[k] \o "_" \o ToString(i))
                        = Shown(At(series[i], pico_info[pico_names[k]].column))
        /\ \A i \in (Len(series) + 1)..max :
              /\ Cell(id, "DOPANEL_" \o ToString(i)) = Sentinel
              /\ \A k \in 1..Len(pico_names) :
                    Cell(id, pico_names[k] \o "_" \o ToString(i)) = Sentinel
        /\ \A i \in 1..(max + 1) :
              ("DOPANEL_" \o ToString(i)) \in Range(variables) <=> i <= max

C2_Padding ==
    /\ pc \in AfterPico => \A id \in Keys(src_data) : C2_PicoSlots(id)
    /\ pc \in AfterQpcr => \A id \in Keys(src_data) : C2_QpcrSlots(id)

\* C2 witness: a finished run in which, in each family, a patient with one
\* reading stands beside a patient with two, so that its second slot group is
\* padding.
C2_Witness ==
    /\ pc = "done"
    /\ \E a, b \in Keys(src_data) :
          /\ Len(src_data[a].qpcr) = 1
          /\ Len(src_data[b].qpcr) = 2
          /\ Cell(a, "PCR_1") # Sentinel
          /\ Cell(a, "PCR_2") = Sentinel
    /\ \E a, b \in Keys(src_data) :
          /\ Len(src_data[a].pico) = 1
          /\ Len(src_data[b].pico) = 2
          /\ Cell(a, "ALB_1") # Sentinel
          /\ Cell(a, "ALB_2") = Sentinel

\* The float that str() printed as the cell s.
FromFloatStr(s) == CHOOSE n \in 0..99 : FloatStr(n) = s

HasValue(qpcr) == qpcr[3] # ""

RECURSIVE SeqSum(_)
SeqSum(vals) == IF vals = <<>> THEN 0 ELSE Head(vals) + SeqSum(Tail(vals))

SetMin(S) == CHOOSE m \in S : \A x \in S : m <= x

\* The readings of a patient that have a value, in series order, as the
\* floats that add_qpcr_data left in the store.
Readings(id) ==
    LET having == SelectSeq(src_data[id].qpcr, HasValue)
    IN  [i \in 1..Len(having) |-> FromFloatStr(having[i][3])]

\* C3: the derived columns of a patient are taken over all its readings that
\* have a value: PCR the first of them, PCR_MAX the largest, PCR_MIN the
\* smallest and PCR_AVE their arithmetic mean, readings of 0 included.
C3_DerivedOverAll ==
    pc \in AfterQpcr =>
        \A id \in Keys(src_data) :
            LET vals == Readings(id)
            IN  vals # <<>> =>
                   /\ Cell(id, "PCR") = FloatStr(vals[1])
                   /\ Cell(id, "PCR_MAX") = FloatStr(SetMax(Range(vals)))
                   /\ Cell(id, "PCR_MIN") = FloatStr(SetMin(Range(vals)))
                   /\ Cell(id, "PCR_AVE") = DivStr(SeqSum(vals), Len(vals))

\* The same for the patients whose readings with a value are all non-zero.
C3_DerivedOverNonZero ==
    pc \in AfterQpcr =>
        \A id \in Keys(src_data) :
            LET vals == Readings(id)
            IN  vals # <<>> /\ 0 \notin Range(vals) =>
                   /\ Cell(id, "PCR") = FloatStr(vals[1])
                   /\ Cell(id, "PCR_MAX") = FloatStr(SetMax(Range(vals)))
                   /\ Cell(id, "PCR_MIN") = FloatStr(SetMin(Range(vals)))
                   /\ Cell(id, "PCR_AVE") = DivStr(SeqSum(vals), Len(vals))

C3_NonZeroWitness ==
    /\ pc = "done"
    /\ \E id \in Keys(src_data) :
          /\ Len(Readings(id)) >= 2
          /\ 0 \notin Range(Readings(id))
          /\ Cell(id, "PCR_AVE") = "9.0"

\* The transform of a raw reading under the log flag.
Transformed(v, log) == IF log THEN Log10(1 + ToFloat(v)) ELSE ToFloat(v)

\* C4: the step of add_qpcr_data transforms every reading that has a value,
\* t(v) = log10(1 + v) under -log and t(v) = v without, and takes the derived
\* minimum, maximum and mean over the transformed readings.
C4_TransformThenAggregate ==
    [][pc = "add_qpcr" /\ pc' # "add_qpcr" =>
         \A id \in Keys(src_data) :
             LET raw  == SelectSeq(src_data[id].qpcr, HasValue)
                 tv   == [i \in 1..Len(raw) |-> Transformed(raw[i][3], convert_qpcr_log)]
                 CellAfter(name) ==
                     mira_data'[id][CHOOSE i \in 1..Len(variables') :
                                        variables'[i] = name]
             IN  raw # <<>> =>
                    /\ CellAfter("PCR_MIN") = FloatStr(SetMin(Range(tv)))
                    /\ CellAfter("PCR_MAX") = FloatStr(SetMax(Range(tv)))
                    /\ CellAfter("PCR_AVE") = DivStr(SeqSum(tv), Len(tv))]_vars

\* The code map of a dictionary entry has the labels of its code spec as keys,
\* and the empty string.
Unmapped(entry, raw) ==
    entry.info.has_ranges /\ raw \notin Keys(entry.info.idict)

\* C5, demographics family: a raw cell that is no key of the code map of its
\* variable is rendered empty.
C5_DemoClosed ==
    pc \in AfterDemo \cup {"aborted"} =>
        \A id \in Keys(src_data) : \A k \in 1..Len(demo_dict) :
            LET e == demo_dict[k]
            IN  (src_data[id].demo # <<>> /\ Unmapped(e, At(src_data[id].demo, e.col)))
                    => Cell(id, e.info.name) = Shown("")

\* C5, case-notification family: the same, and the run goes on.
C5_CaseClosed ==
    pc \in AfterCase \cup {"aborted"} =>
        \A id \in Keys(src_data) : \A k \in 1..Len(case_dict) :
            LET e == case_dict[k]
            IN  (src_data[id].case # <<>> /\ Unmapped(e, At(src_data[id].case, e.col)))
                    => /\ pc # "aborted"
                       /\ Cell(id, e.info.name) = Shown("")

\* C5: in both families a raw cell that is no key of the code map of its
\* variable is rendered as the empty value, and the run continues.
C5_ClosedVocabulary == C5_DemoClosed /\ C5_CaseClosed

C5_DemoWitness ==
    /\ pc = "done"
    /\ \E id \in Keys(src_data) :
          /\ src_data[id].demo # <<>>
          /\ At(src_data[id].demo, 3) = "Unk"
          /\ Cell(id, "SEX") = Sentinel

\* The same as C4 for the patients whose transformed readings are all non-zero.
C4_TransformThenAggregateNonZero ==
    [][pc = "add_qpcr" /\ pc' # "add_qpcr" =>
         \A id \in Keys(src_data) :
             LET raw  == SelectSeq(src_data[id].qpcr, HasValue)
                 tv   == [i \in 1..Len(raw) |-> Transformed(raw[i][3], convert_qpcr_log)]
                 CellAfter(name) ==
                     mira_data'[id][CHOOSE i \in 1..Len(variables') :
                                        variables'[i] = name]
             IN  raw # <<>> /\ 0 \notin Range(tv) =>
                    /\ CellAfter("PCR_MIN") = FloatStr(SetMin(Range(tv)))
                    /\ CellAfter("PCR_MAX") = FloatStr(SetMax(Range(tv)))
                    /\ CellAfter("PCR_AVE") = DivStr(SeqSum(tv), Len(tv))]_vars

\* The identifiers carried by the master rows read so far.
MasterIds == {r[1] : r \in master_seen}

\* A step of the loop of load_master.
MasterRowStep == pc = "load_master" /\ pc' = "load_master"

\* C6: the identifiers that have an output row are the keys of the store, each
\* of them was carried by a master row, and only a step of load_master changes
\* the set of keys of the store.
C6_OutputIds ==
    /\ Keys(mira_data) \subseteq Keys(src_data)
    /\ pc \in AfterDemo \cup {"aborted"} =>
          /\ Keys(mira_data) = Keys(src_data)
          /\ {mira_data[id][1] : id \in Keys(mira_data)} = Keys(src_data)
    /\ Keys(src_data) \subseteq MasterIds

C6_AuthoritativeMaster ==
    /\ []C6_OutputIds
    /\ [][Keys(src_data') # Keys(src_data) => MasterRowStep]_vars

\* C6 witness: a finished run whose sequencing sources hold an identifier that
\* no master row carried and whose master table held a row that was not
\* accepted, beside a patient that has a row.
C6_Witness ==
    /\ pc = "done"
    /\ aggregate_seq_data
    /\ \E id \in seq_ids : id \notin MasterIds
    /\ \E id \in MasterIds : id \notin Keys(src_data)
    /\ Keys(mira_data) # {}

\* C7: once the ignore list is read, an identifier is a key of the store if
\* and only if some master row read so far carries it with a non-empty group
\* and it is not on the ignore list.
C7_StoreMembership ==
    pc # "load_ignore" =>
        \A id \in Ids \cup Keys(src_data) :
            id \in Keys(src_data) <=>
                /\ id \notin Range(ignore_id)
                /\ \E r \in master_seen : r[1] = id /\ r[2] # ""

\* C7 witness: one patient in the store, one identifier refused because it is
\* ignored, and a row refused for its empty group.
C7_Witness ==
    /\ pc = "load_master"
    /\ "G-1" \in Keys(src_data)
    /\ <<"G-2", "Epos">> \in master_seen
    /\ "G-2" \in Range(ignore_id)
    /\ <<"G-1", "">> \in master_seen

\* C8: a master row whose group cell is empty changes nothing in the store.
C8_EmptyGroupRowExcluded ==
    [][MasterRowStep /\ At(row', 10) = "" =>
          src_data' = src_data /\ src_keys' = src_keys]_vars

\* C8 witness: a row with an empty group has just been read for a patient that
\* an earlier row created.
C8_Witness ==
    /\ pc = "load_master"
    /\ row # <<>>
    /\ At(row, 10) = ""
    /\ At(row, 1) \in Keys(src_data)
    /\ At(row, 8) # ""

\* C9: the group of a record is the group cell of the master row that creates
\* it, and no step changes the group of a record or removes a record.
C9_GroupSetOnce ==
    [][/\ \A id \in Keys(src_data) :
             id \in Keys(src_data') /\ src_data'[id].group = src_data[id].group
       /\ \A id \in Keys(src_data') \ Keys(src_data) :
             MasterRowStep /\ At(row', 1) = id /\ src_data'[id].group = At(row', 10)]_vars

\* C9 witness: a master row has just been accepted for an existing patient
\* with a group that differs from the group of the record.
C9_Witness ==
    /\ pc = "load_master"
    /\ row # <<>>
    /\ At(row, 1) \in Keys(src_data)
    /\ At(row, 10) \notin {"", src_data[At(row, 1)].group}
    /\ Len(src_data[At(row, 1)].qpcr) >= 2

\* C10: the demo field and the case field of a record are each assigned at
\* most once in a run.
C10_AssignedAtMostOnce ==
    \A id \in Ids : demo_sets[id] <= 1 /\ case_sets[id] <= 1

(***************************************************************************)
(* makecsv.py, lines 40-53: the dictionary file read back.                 *)
(***************************************************************************)
\* type.lower() on the types that occur.
Lower(type) == IF type = "String" THEN "string" ELSE type

\* parts[1] on a piece without ":" raises IndexError.
CodesRaise(r) ==
    /\ Lower(At(r, 1)) = "category"
    /\ 2 < Len(r)
    /\ \E i \in 1..Len(At(r, 2)) : Len(At(r, 2)[i]) < 2

RECURSIVE CodesOf(_, _)
CodesOf(pieces, codes) ==
    IF pieces = <<>> THEN codes
    ELSE CodesOf(Tail(pieces), Put(codes, Head(pieces)[1], Head(pieces)[2]))

\* code_dict: one map code -> label per row of the dictionary file.
code_dict(rows) ==
    [i \in 1..Len(rows) |->
        IF Lower(At(rows[i], 1)) = "category" /\ 2 < Len(rows[i])
        THEN CodesOf(At(rows[i], 2), EmptyDict)
        ELSE EmptyDict]

\* The entries of the two dictionaries that have a code map.
CodedEntries ==
    {e \in Range(demo_dict) \cup Range(case_dict) : e.info.has_ranges}

\* C11: the dictionary file written by save_dict is read back by load_dict
\* without an error, and the dictionary read back has, for every variable that
\* has a code map, a code map equal to the one the export was made with.
C11_RoundTrip ==
    pc = "done" =>
        /\ ~load_dict_raises(dict_file)
        /\ \A e \in CodedEntries :
               \E x \in Range(load_dict(dict_file)) :
                   x.info.has_ranges /\ x.info.idict = e.info.idict

\* What does hold of the file: read back by makecsv.py, the row of a coded
\* category variable gives the map code -> label that is the inverse of the
\* map label -> code the export was made with.
C11_ReadBackByMakecsv ==
    pc = "done" =>
        /\ \A i \in 1..Len(dict_file) : ~CodesRaise(dict_file[i])
        /\ \A e \in CodedEntries :
               LET codes  == code_dict(dict_file)[Col(e.info.name)]
                   labels == Keys(e.info.idict) \ {""}
               IN  e.info.type = "category" =>
                      /\ Keys(codes) = {e.info.idict[l] : l \in labels}
                      /\ \A l \in labels : codes[e.info.idict[l]] = l

\* The entries of a code spec: its pieces, a trailing or doubled ";" aside.
Entries(codes) == {codes[i] : i \in {j \in 1..Len(codes) : codes[j] # <<"">>}}

\* A malformed dictionary row: a position that is no integer, fewer than 6
\* fields, more than 7, or an entry of the code spec that is not one
\* code:label pair.
Malformed(r) ==
    \/ Len(r) < 6
    \/ Len(r) > 7
    \/ ~IsInt(At(r, 0))
    \/ Len(r) = 7 /\ \E p \in Entries(At(r, 6)) : Len(p) # 2

\* C12: load_dict raises on every dictionary file that holds a malformed row;
\* it never returns a dictionary from such a file.
C12_FailsLoudly ==
    pc = "load_dict_done" =>
        ((\E i \in 1..Len(arg) : Malformed(arg[i])) => res.raised)

\* The same for the files whose rows have at most 7 fields, and conversely
\* load_dict returns a dictionary from every file without a malformed row.
C12_FailsLoudlyUpTo7 ==
    pc = "load_dict_done" /\ (\A i \in 1..Len(arg) : Len(arg[i]) <= 7) =>
        (res.raised <=> \E i \in 1..Len(arg) : Malformed(arg[i]))

\* A row of more than 7 fields is read as a row without a code spec.
C12_LongRowReturned ==
    /\ pc = "load_dict_done"
    /\ \E i \in 1..Len(arg) : Len(arg[i]) > 7
    /\ ~res.raised
    /\ \A x \in Range(res.dict) : ~x.info.has_ranges

\* The dots of a cluster code, and the parts before and after its first dot
\* (the whole code and nothing when it has no dot).
Dots(code) == {k \in 1..Len(code) : code[k] = "."}

FirstDot(code) == CHOOSE k \in Dots(code) : \A j \in Dots(code) : k <= j

BeforeDot(code) ==
    IF Dots(code) = {} THEN code ELSE SubSeq(code, 1, FirstDot(code) - 1)

AfterDot(code) ==
    IF Dots(code) = {} THEN <<>> ELSE SubSeq(code, FirstDot(code) + 1, Len(code))

\* The k-th character of a part, empty when the part is shorter.
CharOf(part, k) == IF k <= Len(part) THEN <<part[k]>> ELSE <<>>

\* The four cells the claim describes for a code.
ClusterCellsAsStated(code, cells) ==
    LET extra == AfterDot(code)
    IN  /\ cells.CLUST = BeforeDot(code)
        /\ cells.MCLUST = CharOf(extra, 1)
        /\ cells.SCLUST = CharOf(extra, 2)
        /\ cells.MSCLUST \in (IF Len(extra) >= 3 THEN {CharOf(extra, 3)}
                               ELSE {<<>>, <<"0">>})

\* C13: for every cluster code with at most one dot, load_cluster_data does
\* not raise and assigns CLUST the part before the dot, MCLUST, SCLUST and
\* MSCLUST the first, second and third character of the part after it, an
\* absent part being empty or zero.
C13_ClusterParts ==
    pc = "load_cluster_data_done" /\ Cardinality(Dots(arg)) <= 1 =>
        ~res.raised /\ ClusterCellsAsStated(arg, res.cells)

\* The same for the codes that have exactly one dot; a code without a dot
\* raises.
C13_DottedClusterParts ==
    pc = "load_cluster_data_done" /\ Cardinality(Dots(arg)) <= 1 =>
        IF Dots(arg) = {} THEN res.raised
        ELSE ~res.raised /\ ClusterCellsAsStated(arg, res.cells)

\* Positions of the main script at which data.csv has been written.
Exported == {"save_dict", "done"}

\* The columns of the four families that a patient may lack.
DemoColumns == {e.info.name : e \in Range(demo_dict)}

CaseColumns == {e.info.name : e \in Range(case_dict)}

PicoColumns ==
    UNION {{"DOPANEL_" \o ToString(i)}
               \cup {pico_names[k] \o "_" \o ToString(i) : k \in 1..Len(pico_names)} :
           i \in 1..LongestSeries("pico")}

SeqColumns == {v[1] : v \in Range(snp_vars) \cup Range(af_vars) \cup Range(cl_vars)}

AllSentinel(id, columns) == \A name \in columns : Cell(id, name) = Sentinel

\* C14: every patient of the store has a row once add_demo_data has returned,
\* and in the exported table a patient without a demographics row, without a
\* case-notification row, without metabolic panels or, under -seq, without
\* sequencing data has the sentinel in every column of that family.
C14_AbsentFamilies ==
    /\ pc \in AfterDemo => Keys(src_data) \subseteq Keys(mira_data)
    /\ pc \in Exported =>
          \A id \in Keys(src_data) :
              /\ src_data[id].demo = <<>> => AllSentinel(id, DemoColumns)
              /\ src_data[id].case = <<>> => AllSentinel(id, CaseColumns)
              /\ src_data[id].pico = <<>> => AllSentinel(id, PicoColumns)
              /\ (aggregate_seq_data /\ id \notin seq_ids) => AllSentinel(id, SeqColumns)

\* C14 witness: an exported table under -seq in which a patient that has data
\* in no family stands beside a patient that has panels and sequencing data.
C14_Witness ==
    /\ pc = "done"
    /\ aggregate_seq_data
    /\ \E a, b \in Keys(src_data) :
          /\ src_data[a].demo = <<>> /\ src_data[a].case = <<>>
          /\ src_data[a].pico = <<>> /\ a \notin seq_ids
          /\ src_data[b].pico # <<>> /\ b \in seq_ids
          /\ Cell(b, "ALB_1") # Sentinel /\ Cell(b, "SNP10218") # Sentinel
          /\ Cell(a, "SEX") = Sentinel /\ Cell(a, "FEVER") = Sentinel
          /\ Cell(a, "ALB_1") = Sentinel /\ Cell(a, "SNP10218") = Sentinel

\* C15: normalize_id returns, for an identifier that contains a digit, the
\* identifier with one separator inserted just before its first digit and
\* prints no warning; for an identifier without a digit it returns the
\* identifier unchanged and prints the warning.
C15_NormalizeId ==
    pc = "normalize_id_done" =>
        IF \E k \in 1..Len(arg) : IsDigit(arg[k])
        THEN /\ ~res.warned
             /\ \E k \in 1..Len(arg) :
                   /\ IsDigit(arg[k])
                   /\ \A j \in 1..(k - 1) : ~IsDigit(arg[j])
                   /\ res.id = SubSeq(arg, 1, k - 1) \o <<"-">> \o SubSeq(arg, k, Len(arg))
        ELSE res.id = arg /\ res.warned

\* C15 witness: an identifier with a prefix and two digits has been
\* normalized.
C15_Witness ==
    /\ pc = "normalize_id_done"
    /\ \E k \in 2..Len(arg) :
          /\ \A j \in 1..(k - 1) : ~IsDigit(arg[j])
          /\ IsDigit(arg[k])
          /\ \E j \in (k + 1)..Len(arg) : IsDigit(arg[j])
          /\ res.id[k] = "-"
          /\ Len(res.id) = Len(arg) + 1

\* Positions of the main script at which every schema phase has run.
AfterSchema == {"save_data", "save_dict", "done"}

\* The places of a name in the hierarchy: group, table, position in the table.
Places(groups, name) ==
    UNION {UNION {{<<g, t, k>> : k \in {i \in 1..Len(groups[g].tables[t].names) :
                                          groups[g].tables[t].names[i] = name}} :
                  t \in 1..Len(groups[g].tables)} :
           g \in 1..Len(groups)}

\* Every entry of the hierarchy is still there after the step, at its place.
HierarchyKept ==
    \A g \in 1..Len(var_groups) :
        /\ g <= Len(var_groups')
        /\ var_groups'[g].gname = var_groups[g].gname
        /\ \A t \in 1..Len(var_groups[g].tables) :
              /\ t <= Len(var_groups'[g].tables)
              /\ var_groups'[g].tables[t].tname = var_groups[g].tables[t].tname
              /\ \A k \in 1..Len(var_groups[g].tables[t].names) :
                    /\ k <= Len(var_groups'[g].tables[t].names)
                    /\ var_groups'[g].tables[t].names[k]
                           = var_groups[g].tables[t].names[k]

OnePlaceEach ==
    pc \in AfterSchema =>
        \A name \in Range(variables) : Cardinality(Places(var_groups, name)) = 1

\* C16: once every schema phase has run, every declared variable name has
\* exactly one place in the group hierarchy, whatever the two dictionaries
\* are, and no step removes an entry of the hierarchy.
C16_GroupHierarchy == []OnePlaceEach /\ [][HierarchyKept]_vars

\* The names declared by the two dictionaries are distinct from each other
\* and from the names the program declares itself.
DictNamesDistinct ==
    LET names == [i \in 1..(Len(demo_dict) + Len(case_dict)) |->
                     IF i <= Len(demo_dict) THEN demo_dict[i].info.name
                     ELSE case_dict[i - Len(demo_dict)].info.name]
    IN  /\ \A i, j \in 1..Len(names) : names[i] = names[j] => i = j
        /\ \A i \in 1..Len(names) : names[i] \notin {"GID", "DIAG"}

\* The same for dictionaries whose names are distinct.
C16_GroupHierarchyDistinctNames ==
    [](DictNamesDistinct => OnePlaceEach) /\ [][HierarchyKept]_vars

\* C17: the step of add_qpcr_data gives every patient that has a reading
\* with a non-zero value the mean of all its readings that have a value,
\* transformed under -log: their sum divided by their number, the readings of
\* 0 that made the loop start its sums anew included in the number.
C17_MeanOverAllReadings ==
    [][pc = "add_qpcr" /\ pc' # "add_qpcr" =>
         \A id \in Keys(src_data) :
             LET raw == SelectSeq(src_data[id].qpcr, HasValue)
                 tv  == [i \in 1..Len(raw) |-> Transformed(raw[i][3], convert_qpcr_log)]
                 ave == mira_data'[id][CHOOSE i \in 1..Len(variables') :
                                           variables'[i] = "PCR_AVE"]
             IN  (\E i \in 1..Len(tv) : tv[i] # 0) =>
                     ave = DivStr(SeqSum(tv), Len(tv))]_vars

\* C17 witness: add_qpcr_data has run on a patient whose first reading is 0
\* and whose second is not, and the mean is half the second.
C17_Witness ==
    /\ pc \in AfterQpcr
    /\ \E id \in Keys(src_data) :
          /\ Len(Readings(id)) = 2
          /\ Readings(id)[1] = 0
          /\ Readings(id)[2] # 0
          /\ Cell(id, "PCR_AVE") = DivStr(Readings(id)[2], 2)
          /\ Cell(id, "PCR_AVE") # FloatStr(Readings(id)[2])

====
